---- MODULE Spec2Model ----
(***************************************************************************)
(* Keyset paginator of runeb/groq-paginator (src/src/index.ts).            *)
(*                                                                         *)
(* The paginator builds GROQ query strings and hands them to client.fetch. *)
(* The executor is modelled as the test suite's mock client does it        *)
(* (groq-js evaluate over an in-memory dataset, src/test/index.test.ts     *)
(* 44-53): filter, stable order() on the primary field, draft overlay,     *)
(* slice.  Strings are sequences of character codes so that string::split, *)
(* path() matching and the string comparison of _id are computed.          *)
(***************************************************************************)
EXTENDS Integers, Sequences, FiniteSets, TLC

\* ---------------------------------------------------------------- bounds
MaxDocs == 2
MaxTieDocs == 3
MaxOrder == 2
MaxPageSize == 2
MaxPage == 2
MaxInFlight == 2
MaxOverlapDocs == 2

\* ------------------------------------------------------------- strings
\* character codes: "." = 46, "a" = 97 ... "z" = 122
Dot == 46
DraftsPrefix == <<100, 114, 97, 102, 116, 115, 46>>        \* "drafts."
DraftsSegment == <<100, 114, 97, 102, 116, 115>>           \* "drafts"
Names == {<<99>>, <<101>>}                                  \* "c", "e"
Ids == Names \cup {DraftsPrefix \o n : n \in Names}
Types == {"test", "other"}

Null == <<>>
Undefined == <<>>
Def(v) == <<v>>
Val(o) == o[1]

RECURSIVE StrLess(_, _)
\* JavaScript / GROQ string comparison: lexicographic on code units
StrLess(s, t) ==
  IF t = <<>> THEN FALSE
  ELSE IF s = <<>> THEN TRUE
  ELSE IF Head(s) < Head(t) THEN TRUE
  ELSE IF Head(s) > Head(t) THEN FALSE
  ELSE StrLess(Tail(s), Tail(t))

StartsWith(s, p) == Len(s) >= Len(p) /\ SubSeq(s, 1, Len(p)) = p

RECURSIVE FirstIndexOf(_, _, _)
\* least i >= from with sep occurring in s at i, or 0
FirstIndexOf(s, sep, from) ==
  IF from + Len(sep) - 1 > Len(s) THEN 0
  ELSE IF SubSeq(s, from, from + Len(sep) - 1) = sep THEN from
  ELSE FirstIndexOf(s, sep, from + 1)

RECURSIVE StringSplit(_, _)
\* GROQ string::split(s, sep), sep non-empty
StringSplit(s, sep) ==
  LET i == FirstIndexOf(s, sep, 1) IN
  IF i = 0 THEN <<s>>
  ELSE <<SubSeq(s, 1, i - 1)>> \o StringSplit(SubSeq(s, i + Len(sep), Len(s)), sep)

\* GROQ array element access arr[i] (0-based); null when out of range
ElementAt(arr, i) == IF i + 1 \in 1..Len(arr) THEN Def(arr[i + 1]) ELSE Null

\* _id in path("drafts.*"): two dot-separated segments, the first "drafts",
\* the second non-empty ("*" matches one segment)
InDraftsPath(id) ==
  LET segs == StringSplit(id, <<Dot>>) IN
  Len(segs) = 2 /\ segs[1] = DraftsSegment /\ segs[2] # <<>>

\* ------------------------------------------------------------ state
VARIABLES dataset, pageSize, direction,
          currentPage, lastOrderFieldMin, lastOrderFieldMax, lastMinId, lastMaxId,
          last, walk, fwd, pending, race

config == <<dataset, pageSize, direction>>
cursor == <<currentPage, lastOrderFieldMin, lastOrderFieldMax, lastMinId, lastMaxId>>
vars == <<dataset, pageSize, direction, currentPage, lastOrderFieldMin,
          lastOrderFieldMax, lastMinId, lastMaxId, last, walk, fwd, pending, race>>

\* documents with any of the identifiers c, e, drafts.c, drafts.e and any type
Docs == [_id : Ids, _type : Types, order : 1..MaxOrder]
\* documents c, drafts.d, e that all match the filter (three logical documents)
TieIds == {<<99>>, DraftsPrefix \o <<100>>, <<101>>}
TieDocs == [_id : TieIds, _type : {"test"}, order : 1..MaxOrder]

RECURSIVE SeqsUpTo(_, _)
\* sequences (stored order) of at most n documents of D with distinct _id
SeqsUpTo(D, n) ==
  IF n = 0 THEN {<<>>}
  ELSE LET S == SeqsUpTo(D, n - 1) IN
       S \cup {Append(s, d) : s \in {t \in S : Len(t) = n - 1},
                              d \in D}

DistinctIds(s) == \A i, j \in 1..Len(s) : i # j => s[i]._id # s[j]._id
Datasets ==
  {s \in SeqsUpTo(Docs, MaxDocs) \cup SeqsUpTo(TieDocs, MaxTieDocs) : DistinctIds(s)}

\* ------------------------------------------------- executor (GROQ) model
\* options.filter of the test suite: _type == "test"
filter(d) == d._type = "test"

NoPageFilter == [kind |-> "none", f |-> Undefined, id |-> Undefined]

\* the injected cursor predicate, evaluated on document d.  An undefined bound
\* is interpolated as the bare word undefined, which GROQ reads as a missing
\* attribute (null): neither comparison is then true.
PageFilterHolds(pf, d) ==
  CASE pf.kind = "none" -> TRUE
    [] pf.kind = "gt" ->
         /\ pf.f # Undefined /\ pf.id # Undefined
         /\ (d.order > Val(pf.f) \/ (d.order = Val(pf.f) /\ StrLess(Val(pf.id), d._id)))
    [] pf.kind = "lt" ->
         /\ pf.f # Undefined /\ pf.id # Undefined
         /\ (d.order < Val(pf.f) \/ (d.order = Val(pf.f) /\ StrLess(d._id, Val(pf.id))))

\* does a come strictly before b under order(<field> <dir>)
Before(a, b, dir) == IF dir = "asc" THEN a.order < b.order ELSE a.order > b.order

RECURSIVE InsertStable(_, _, _)
\* insert d after every element that does not come strictly after it
InsertStable(s, d, dir) ==
  IF s = <<>> THEN <<d>>
  ELSE IF Before(d, Head(s), dir) THEN <<d>> \o s
  ELSE <<Head(s)>> \o InsertStable(Tail(s), d, dir)

RECURSIVE OrderBy(_, _)
\* GROQ | order(<field> <dir>): sorts on the primary field only; rows with
\* equal values keep their incoming order (stable)
OrderBy(s, dir) ==
  IF s = <<>> THEN <<>>
  ELSE InsertStable(OrderBy(SubSeq(s, 1, Len(s) - 1), dir), s[Len(s)], dir)

\* "_publishedId": string::split(_id, "drafts.")[1]
PublishedId(d) == ElementAt(StringSplit(d._id, DraftsPrefix), 1)

\* variant: the published counterpart is looked up among the filtered documents
CountPublished_Filtered(ds, d) ==
  LET pub == PublishedId(d) IN
  IF pub = Null THEN 0
  ELSE Cardinality({i \in 1..Len(ds) : filter(ds[i]) /\ ds[i]._id = Val(pub)})

\* count(*[_id == ^._publishedId]._id) over the whole raw dataset
CountPublished(ds, d) ==
  LET pub == PublishedId(d) IN
  IF pub = Null THEN 0
  ELSE Cardinality({i \in 1..Len(ds) : ds[i]._id = Val(pub)})

\* [!_isDraft || count(*[_id == ^._publishedId]._id) == 0]
OverlayKeeps(ds, d) == ~InDraftsPath(d._id) \/ CountPublished(ds, d) = 0

\* "document": @ {order, _id}  ...  {...document}
Project(d) == [_id |-> d._id, order |-> d.order]

RECURSIVE MapProject(_)
MapProject(s) == IF s = <<>> THEN <<>> ELSE <<Project(Head(s))>> \o MapProject(Tail(s))

Max0(a) == IF a < 0 THEN 0 ELSE a
Min2(a, b) == IF a < b THEN a ELSE b

\* GROQ slice [left...right] as groq-js evaluates it: a negative index counts
\* from the end, then Array.prototype.slice clamps
Slice(s, left, right) ==
  LET n  == Len(s)
      l0 == IF left < 0 THEN n + left ELSE left
      r0 == IF right < 0 THEN n + right ELSE right
      l  == Min2(IF l0 < 0 THEN Max0(n + l0) ELSE l0, n)
      r  == Min2(IF r0 < 0 THEN Max0(n + r0) ELSE r0, n)
  IN IF l >= r THEN <<>> ELSE SubSeq(s, l + 1, r)

\* the query template of index.ts 43-58, evaluated on dataset ds
query(ds, pageFilter, dir, start, end) ==
  LET matched == SelectSeq(ds, LAMBDA d : filter(d) /\ PageFilterHolds(pageFilter, d))
      ordered == OrderBy(matched, dir)
      visible == SelectSeq(ordered, LAMBDA d : OverlayKeeps(ds, d))
  IN Slice(MapProject(visible), start, end)

inverseDirection(dir) == IF dir = "asc" THEN "desc" ELSE "asc"

\* variant: the rows are handed over as fetched in the inverse direction
previousPageQuery_NoResort(ds, pageFilter, dir, size) ==
  query(ds, pageFilter, inverseDirection(dir), 0, size)

\* previousPageQuery of index.ts 116-124
previousPageQuery(ds, pageFilter, dir, size) ==
  OrderBy(query(ds, pageFilter, inverseDirection(dir), 0, size), dir)

\* countQuery of index.ts 143-146
countQuery(ds) ==
  Len(SelectSeq(SelectSeq(ds, filter), LAMBDA d : OverlayKeeps(ds, d)))

\* JavaScript numbers that Math.ceil(count / pageSize) can produce
Num(v) == [kind |-> "num", v |-> v]
NoNumber == [kind |-> "none", v |-> 0]

\* variant: Math.floor in place of Math.ceil
MathCeilDiv_Floor(a, b) == IF b > 0 THEN Num(a \div b) ELSE NoNumber

\* Math.ceil(a / b) for integers a >= 0 and b
MathCeilDiv(a, b) ==
  IF b > 0 THEN Num((a + b - 1) \div b)
  ELSE IF b < 0 THEN Num(0 - (a \div (0 - b)))
  ELSE IF a = 0 THEN [kind |-> "NaN", v |-> 0]
  ELSE [kind |-> "Infinity", v |-> 0]

\* what client.fetch resolves to for the query description q
Evaluate(ds, q) ==
  CASE q.kind = "page"  -> query(ds, q.pf, q.dir, q.start, q.end)
    [] q.kind = "prev"  -> previousPageQuery(ds, q.pf, q.dir, q.end)
    [] q.kind = "count" -> <<>>

\* ------------------------------------------------------------ paginator
\* record of the most recently completed call
NoCall == [op |-> "none", page |-> 0, fresh |-> FALSE, fetches |-> 0, fetchOk |-> FALSE, fetched |-> <<>>,
           outcome |-> "none", error |-> "none", rows |-> <<>>, count |-> NoNumber,
           before |-> <<>>]

NoWalk == [next |-> 0, acc |-> <<>>]
\* the run of nextPage() calls made since construction and nothing else
NewFwd == [valid |-> TRUE, n |-> 0, acc |-> <<>>, threw |-> FALSE]
NoFwd == [valid |-> FALSE, n |-> 0, acc |-> <<>>, threw |-> FALSE]
\* the cursor as one value
CursorRecord ==
  [cp |-> currentPage, min |-> lastOrderFieldMin, max |-> lastOrderFieldMax,
   minId |-> lastMinId, maxId |-> lastMaxId]
FreshCursor ==
  [cp |-> Undefined, min |-> Undefined, max |-> Undefined,
   minId |-> Undefined, maxId |-> Undefined]
\* the calls issued since the paginator was last idle: the cursor they started
\* from, the calls in issue order and what each returned
NoOut == [ok |-> FALSE, error |-> "pending", rows |-> <<>>]
NoRace == [open |-> FALSE, start |-> FreshCursor, ops |-> <<>>, outs |-> <<>>]

PageSizes == 1..MaxPageSize
Directions == {"asc", "desc"}

\* the cursor variables right after createPaginatedQuery(options), index.ts 37-41
Fresh ==
  /\ currentPage = Undefined
  /\ lastOrderFieldMin = Undefined
  /\ lastOrderFieldMax = Undefined
  /\ lastMinId = Undefined
  /\ lastMaxId = Undefined

Init ==
  /\ dataset \in Datasets
  /\ pageSize \in PageSizes
  /\ direction \in Directions
  /\ Fresh
  /\ last = NoCall
  /\ walk = NoWalk
  /\ fwd = NewFwd
  /\ pending = <<>>
  /\ race = NoRace

\* a call in flight: the query string is built from the cursor as it is when
\* the call is made and handed to client.fetch once
Call(op, then, page, q) ==
  [op |-> op, then |-> then, page |-> page, q |-> q, fresh |-> (currentPage = Undefined),
   fetches |-> 1]

\* variant: the window is one row short (end taken as inclusive)
PageQuery_ShortWindow(page) ==
  [kind |-> "page", pf |-> NoPageFilter, dir |-> direction,
   start |-> page * pageSize, end |-> page * pageSize + pageSize - 1]

\* variant: getPage keeps the cursor predicate of nextPage once positioned
PageQuery_CursorFilter(page) ==
  [kind |-> "page",
   pf |-> IF currentPage = Undefined THEN NoPageFilter
          ELSE [kind |-> "gt", f |-> lastOrderFieldMax, id |-> lastMaxId],
   dir |-> direction,
   start |-> page * pageSize, end |-> page * pageSize + pageSize]

PageQuery(page) ==
  [kind |-> "page", pf |-> NoPageFilter, dir |-> direction,
   start |-> page * pageSize, end |-> page * pageSize + pageSize]

\* getPage(page) up to the fetch, index.ts 72-84
getPageCall(op, page) == Call(op, "getPage", page, PageQuery(page))

\* variant: no fallback to getPage(0) while currentPage is undefined
nextPageCall_NoFallback ==
  Call("nextPage", "nextPage", 0,
       [kind |-> "page",
        pf |-> [kind |-> "gt", f |-> lastOrderFieldMax, id |-> lastMaxId],
        dir |-> direction, start |-> 0, end |-> pageSize])

\* nextPage() up to the fetch, index.ts 92-104
nextPageCall ==
  IF currentPage = Undefined THEN getPageCall("nextPage", 0)
  ELSE Call("nextPage", "nextPage", 0,
            [kind |-> "page",
             pf |-> [kind |-> "gt", f |-> lastOrderFieldMax, id |-> lastMaxId],
             dir |-> direction, start |-> 0, end |-> pageSize])

\* variant: previousPage() fetches the inverse page and then fetches again
previousPageCall_TwoFetches ==
  IF currentPage = Undefined THEN getPageCall("previousPage", 0)
  ELSE [op |-> "previousPage", then |-> "previousPage", page |-> 0,
        q |-> [kind |-> "prev",
               pf |-> [kind |-> "lt", f |-> lastOrderFieldMin, id |-> lastMinId],
               dir |-> direction, start |-> 0, end |-> pageSize],
        fresh |-> FALSE, fetches |-> 2]

\* previousPage() up to the fetch, index.ts 112-128
previousPageCall ==
  IF currentPage = Undefined THEN getPageCall("previousPage", 0)
  ELSE Call("previousPage", "previousPage", 0,
            [kind |-> "prev",
             pf |-> [kind |-> "lt", f |-> lastOrderFieldMin, id |-> lastMinId],
             dir |-> direction, start |-> 0, end |-> pageSize])

\* numPages() up to the fetch, index.ts 142-147
numPagesCall ==
  Call("numPages", "numPages", 0,
       [kind |-> "count", pf |-> NoPageFilter, dir |-> direction, start |-> 0, end |-> 0])

\* currentPage as the .then callback of call c assigns it
\* (index.ts 86, 106, 130; `currentPage ? x : 0` is falsy for undefined and 0)
Truthy(cp) == IF cp = Undefined THEN FALSE ELSE Val(cp) # 0
ThenCurrentPage(c) ==
  CASE c.then = "getPage"      -> Def(c.page)
    [] c.then = "nextPage"     -> IF Truthy(currentPage) THEN Def(Val(currentPage) + 1) ELSE Def(0)
    [] c.then = "previousPage" -> IF Truthy(currentPage) THEN Def(Val(currentPage) - 1) ELSE Def(0)

\* saveBounds(results), index.ts 60-65: results[0] of an empty array is
\* undefined and reading a property of it throws before any assignment
SaveBoundsThrows(results) == results = <<>>

\* `before` keeps, for an awaited nextPage() or previousPage() on a set cursor,
\* the page the caller was handed by the call just before it
Done(c, ok, fetched, outcome, error, rows, count) ==
  [op |-> c.op, page |-> c.page, fresh |-> c.fresh, fetches |-> c.fetches,
   fetchOk |-> ok, fetched |-> fetched, outcome |-> outcome, error |-> error,
   rows |-> rows, count |-> count,
   before |-> IF /\ race.ops = <<>> /\ ~c.fresh
                 /\ c.op \in {"nextPage", "previousPage"}
                 /\ last.outcome = "resolved" /\ last.op # "numPages"
              THEN last.rows ELSE <<>>]

\* concatenation of the pages returned by getPage(0), getPage(1), ... in turn
\* to a caller that awaits each call
WalkAfter(c, rows) ==
  IF race.ops # <<>> THEN NoWalk
  ELSE IF c.op # "getPage" THEN walk
  ELSE IF c.page = walk.next THEN [next |-> walk.next + 1, acc |-> walk.acc \o rows]
  ELSE IF c.page = 0 THEN [next |-> 1, acc |-> rows]
  ELSE NoWalk

\* concatenation of the pages returned by the first numPages() calls of
\* nextPage() on a new paginator, while no other navigation call is made and
\* no fetch fails
FwdAfter(c, ok, rows, threw) ==
  IF c.op = "numPages" THEN fwd
  ELSE IF race.ops # <<>> \/ c.op # "nextPage" \/ ~fwd.valid \/ ~ok THEN NoFwd
  ELSE IF fwd.n >= MathCeilDiv(countQuery(dataset), pageSize).v THEN NoFwd
  ELSE [valid |-> TRUE, n |-> fwd.n + 1, acc |-> fwd.acc \o rows,
        threw |-> (fwd.threw \/ threw)]

\* variant: currentPage is assigned before the fetch settles
Rejected_EagerPage(c) ==
  /\ last' = Done(c, FALSE, <<>>, "rejected", "FetchError", <<>>, NoNumber)
  /\ currentPage' = Def(c.page)
  /\ UNCHANGED <<config, lastOrderFieldMin, lastOrderFieldMax, lastMinId, lastMaxId, walk>>
  /\ fwd' = FwdAfter(c, FALSE, <<>>, FALSE)

\* the executor rejects: no .then callback runs, the rejection is the promise's
Rejected(c) ==
  /\ last' = Done(c, FALSE, <<>>, "rejected", "FetchError", <<>>, NoNumber)
  /\ fwd' = FwdAfter(c, FALSE, <<>>, FALSE)
  /\ UNCHANGED <<config, cursor, walk>>

\* variant: counting rewinds the cursor to the first page
ResolvedCount_RewindsPage(c) ==
  /\ last' = Done(c, TRUE, <<>>, "resolved", "none", <<>>,
                  MathCeilDiv(countQuery(dataset), pageSize))
  /\ currentPage' = Def(0)
  /\ UNCHANGED <<config, lastOrderFieldMin, lastOrderFieldMax, lastMinId, lastMaxId, walk, fwd>>

\* the executor resolves with a count: .then of numPages, index.ts 148
ResolvedCount(c) ==
  /\ last' = Done(c, TRUE, <<>>, "resolved", "none", <<>>,
                  MathCeilDiv(countQuery(dataset), pageSize))
  /\ UNCHANGED <<config, cursor, walk, fwd>>

\* variant: saveBounds takes the minimum from the last row and the maximum
\* from the first
ResolvedRows_SwappedBounds(c) ==
  \E results \in {Evaluate(dataset, c.q)} :
  /\ currentPage' = ThenCurrentPage(c)
  /\ IF SaveBoundsThrows(results)
     THEN /\ UNCHANGED <<lastOrderFieldMin, lastOrderFieldMax, lastMinId, lastMaxId, walk>>
          /\ last' = Done(c, TRUE, results, "rejected", "TypeError", <<>>, NoNumber)
          /\ fwd' = FwdAfter(c, TRUE, <<>>, TRUE)
     ELSE /\ lastOrderFieldMin' = Def(results[Len(results)].order)
          /\ lastOrderFieldMax' = Def(results[1].order)
          /\ lastMinId' = Def(results[Len(results)]._id)
          /\ lastMaxId' = Def(results[1]._id)
          /\ last' = Done(c, TRUE, results, "resolved", "none", results, NoNumber)
          /\ walk' = WalkAfter(c, results)
          /\ fwd' = FwdAfter(c, TRUE, results, FALSE)
  /\ UNCHANGED config

\* the executor resolves with rows: .then of getPage / nextPage / previousPage,
\* index.ts 85-89, 105-109, 129-133
ResolvedRows(c) ==
  \E results \in {Evaluate(dataset, c.q)} :
  /\ currentPage' = ThenCurrentPage(c)
  /\ IF SaveBoundsThrows(results)
     THEN /\ UNCHANGED <<lastOrderFieldMin, lastOrderFieldMax, lastMinId, lastMaxId, walk>>
          /\ last' = Done(c, TRUE, results, "rejected", "TypeError", <<>>, NoNumber)
          /\ fwd' = FwdAfter(c, TRUE, <<>>, TRUE)
     ELSE /\ lastOrderFieldMin' = Def(results[1].order)
          /\ lastOrderFieldMax' = Def(results[Len(results)].order)
          /\ lastMinId' = Def(results[1]._id)
          /\ lastMaxId' = Def(results[Len(results)]._id)
          /\ last' = Done(c, TRUE, results, "resolved", "none", results, NoNumber)
          /\ walk' = WalkAfter(c, results)
          /\ fwd' = FwdAfter(c, TRUE, results, FALSE)
  /\ UNCHANGED config

\* the counter currentPage is capped for the search
CanStep ==
  IF currentPage = Undefined THEN TRUE
  ELSE Val(currentPage) < MaxPage + 1 /\ Val(currentPage) > 0 - MaxPage - 1

\* await getPage(page): the call, the executor's answer, the .then callback
GetPage(page) ==
  /\ \/ Rejected(getPageCall("getPage", page))
     \/ ResolvedRows(getPageCall("getPage", page))
  /\ UNCHANGED <<pending, race>>

\* await nextPage()
NextPage ==
  /\ CanStep
  /\ \/ Rejected(nextPageCall)
     \/ ResolvedRows(nextPageCall)
  /\ UNCHANGED <<pending, race>>

\* await previousPage()
PreviousPage ==
  /\ CanStep
  /\ \/ Rejected(previousPageCall)
     \/ ResolvedRows(previousPageCall)
  /\ UNCHANGED <<pending, race>>

\* await numPages()
NumPages ==
  /\ \/ Rejected(numPagesCall)
     \/ ResolvedCount(numPagesCall)
  /\ UNCHANGED <<pending, race>>

Pages == 0..MaxPage

\* one caller that awaits each call before issuing the next
Next ==
  \/ \E page \in Pages : GetPage(page)
  \/ NextPage
  \/ PreviousPage
  \/ NumPages

Spec == Init /\ [][Next]_vars

\* ---------------------------------------------- callers that break the contract
\* page sizes and page indexes outside the documented domain
InvalidPageSizes == {0 - 1, 0}
InvalidPages == {0 - 1}

InitInvalid ==
  /\ dataset \in Datasets
  /\ pageSize \in InvalidPageSizes \cup {1}
  /\ direction \in Directions
  /\ Fresh
  /\ last = NoCall
  /\ walk = NoWalk
  /\ fwd = NewFwd
  /\ pending = <<>>
  /\ race = NoRace

NextInvalid ==
  \/ Next
  \/ \E page \in InvalidPages : GetPage(page)

SpecInvalid == InitInvalid /\ [][NextInvalid]_vars

\* ------------------------------------------------------------ a caller that
\* does not await: a call runs up to client.fetch when it is made (the query
\* string holds the cursor of that moment), and its .then callback runs when
\* the executor answers, in any order

\* variant: getPage clears the upper bound before it fetches
Issue_ClearsUpperBound(c) ==
  /\ pending = <<>> \/ (race.open /\ Len(pending) < MaxInFlight)
  /\ pending' = Append(pending, [c |-> c, slot |-> IF pending = <<>> THEN 1 ELSE Len(race.ops) + 1])
  /\ race' = IF pending = <<>>
             THEN [open |-> TRUE, start |-> CursorRecord,
                   ops |-> <<[op |-> c.op, page |-> c.page]>>, outs |-> <<NoOut>>]
             ELSE [race EXCEPT !.ops = Append(@, [op |-> c.op, page |-> c.page]),
                               !.outs = Append(@, NoOut)]
  /\ lastOrderFieldMax' = IF c.op = "getPage" THEN Undefined ELSE lastOrderFieldMax
  /\ UNCHANGED <<config, currentPage, lastOrderFieldMin, lastMinId, lastMaxId, last, walk, fwd>>

\* the synchronous part of getPage / nextPage / previousPage, index.ts 72-84,
\* 92-104, 112-128: the call record c is built from the cursor and handed to
\* client.fetch; nothing is assigned.  A call joins the calls in flight only
\* while none of them has been answered.
Issue(c) ==
  /\ pending = <<>> \/ (race.open /\ Len(pending) < MaxInFlight)
  /\ pending' = Append(pending, [c |-> c, slot |-> IF pending = <<>> THEN 1 ELSE Len(race.ops) + 1])
  /\ race' = IF pending = <<>>
             THEN [open |-> TRUE, start |-> CursorRecord,
                   ops |-> <<[op |-> c.op, page |-> c.page]>>, outs |-> <<NoOut>>]
             ELSE [race EXCEPT !.ops = Append(@, [op |-> c.op, page |-> c.page]),
                               !.outs = Append(@, NoOut)]
  /\ UNCHANGED <<config, cursor, last, walk, fwd>>

IssueGetPage(page) == Issue(getPageCall("getPage", page))
IssueNextPage == CanStep /\ Issue(nextPageCall)
IssuePreviousPage == CanStep /\ Issue(previousPageCall)

\* the executor answers the i-th call in flight: its .then callback runs on
\* the cursor as it is now, index.ts 85-89, 105-109, 129-133
Settle(i) ==
  /\ \/ Rejected(pending[i].c)
     \/ ResolvedRows(pending[i].c)
  /\ pending' = [j \in 1..(Len(pending) - 1) |-> IF j < i THEN pending[j] ELSE pending[j + 1]]
  /\ race' = [race EXCEPT !.open = FALSE,
                          !.outs[pending[i].slot] =
                             [ok |-> last'.fetchOk, error |-> last'.error, rows |-> last'.rows]]

NextOverlap ==
  \/ \E page \in Pages : IssueGetPage(page)
  \/ IssueNextPage
  \/ IssuePreviousPage
  \/ \E i \in 1..Len(pending) : Settle(i)

\* the datasets of the overlapped caller
InitOverlap ==
  /\ dataset \in {s \in SeqsUpTo(TieDocs, MaxOverlapDocs) : DistinctIds(s)}
  /\ pageSize \in PageSizes
  /\ direction \in Directions
  /\ Fresh
  /\ last = NoCall
  /\ walk = NoWalk
  /\ fwd = NewFwd
  /\ pending = <<>>
  /\ race = NoRace

SpecOverlap == InitOverlap /\ [][NextOverlap]_vars

\* ------------------------------------------------------------ reference
\* The logical document set of the specification, stated on identifiers
\* directly (prefix test, suffix after the prefix).
IsDraftId(id) == StartsWith(id, DraftsPrefix)
PublishedIdOf(id) == SubSeq(id, Len(DraftsPrefix) + 1, Len(id))
RawDocs == {dataset[i] : i \in 1..Len(dataset)}
RawIds == {d._id : d \in RawDocs}
LogicalDocs ==
  {d \in RawDocs : filter(d) /\ (IsDraftId(d._id) => PublishedIdOf(d._id) \notin RawIds)}
LogicalRows == {[_id |-> d._id, order |-> d.order] : d \in LogicalDocs}
LogicalCount == Cardinality(LogicalDocs)

\* the total order of the specification: primary value in the configured
\* direction, then identifier ascending
KeyBefore(a, b, dir) ==
  \/ (IF dir = "asc" THEN a.order < b.order ELSE a.order > b.order)
  \/ (a.order = b.order /\ StrLess(a._id, b._id))

RECURSIVE SortSet(_, _)
SortSet(S, dir) ==
  IF S = {} THEN <<>>
  ELSE LET m == CHOOSE x \in S : \A y \in S \ {x} : KeyBefore(x, y, dir)
       IN <<m>> \o SortSet(S \ {m}, dir)

SortedLogical == SortSet(LogicalRows, direction)
PositionOf(seq, row) == CHOOSE i \in 1..Len(seq) : seq[i]._id = row._id

SeqToSet(seq) == {seq[i] : i \in 1..Len(seq)}
PrimaryOrdered(seq, dir) ==
  \A i \in 1..(Len(seq) - 1) :
    IF dir = "asc" THEN seq[i].order <= seq[i + 1].order ELSE seq[i].order >= seq[i + 1].order

\* what getPage(k) fetches
GetPageRows(k) == Evaluate(dataset, PageQuery(k))

\* the last completed call handed a page to the caller
PageReturned == last.outcome = "resolved" /\ last.op # "numPages"

\* ------------------------------------------------------------ claims

\* C1: getPage(k) followed by nextPage() returns the same rows as getPage(k+1),
\* whenever page k+1 is non-empty, for both directions.
C1_NextAfterGetPage ==
  [][(/\ last.op = "getPage" /\ last.outcome = "resolved"
      /\ last'.op = "nextPage" /\ last'.fetchOk
      /\ GetPageRows(last.page + 1) # <<>>)
     => (last'.outcome = "resolved" /\ last'.rows = GetPageRows(last.page + 1))]_vars

\* C2: getPage(k), k >= 1 and non-empty, followed by previousPage() returns the
\* same rows as getPage(k-1), for both directions.
C2_PreviousAfterGetPage ==
  [][(/\ last.op = "getPage" /\ last.outcome = "resolved" /\ last.page >= 1
      /\ last'.op = "previousPage" /\ last'.fetchOk)
     => (last'.outcome = "resolved" /\ last'.rows = GetPageRows(last.page - 1))]_vars

TiesPresent == \E a, b \in LogicalRows : a # b /\ a.order = b.order

\* C4: with colliding primary values, nextPage() starts with the row that
\* follows the previous page's last row in the sorted logical sequence and
\* previousPage() ends with the row that precedes the previous page's first row.
C4_TieBreakAtBoundary ==
  [][(TiesPresent /\ PageReturned /\ last'.fetchOk) =>
       LET seq == SortedLogical
           hi  == PositionOf(seq, last.rows[Len(last.rows)])
           lo  == PositionOf(seq, last.rows[1])
           got == last'.rows
       IN /\ (last'.op = "nextPage" /\ hi < Len(seq))
               => (IF got = <<>> THEN FALSE ELSE got[1] = seq[hi + 1])
          /\ (last'.op = "previousPage" /\ lo > 1)
               => (IF got = <<>> THEN FALSE ELSE got[Len(got)] = seq[lo - 1])]_vars

\* C8: a fetch past the last page or before the first page hands the caller an
\* empty sequence and leaves lowerBound / upperBound as they were.
C8_EmptyPageIsEmptySequence ==
  [][(last'.op \in {"getPage", "nextPage", "previousPage"} /\ last'.fetchOk
      /\ last'.fetched = <<>>)
     => (/\ last'.outcome = "resolved" /\ last'.rows = <<>>
         /\ <<lastOrderFieldMin, lastOrderFieldMax, lastMinId, lastMaxId>>'
              = <<lastOrderFieldMin, lastOrderFieldMax, lastMinId, lastMaxId>>)]_vars

\* C10: a non-positive pageSize fails at construction, and getPage(n) with
\* n < 0 fails, before any fetch reaches the executor.
C10_FailFast ==
  /\ pageSize <= 0 => last.fetches = 0
  /\ (last.op = "getPage" /\ last.page < 0) => (last.fetches = 0 /\ last.outcome = "rejected")

\* the value numPages() computes for the dataset
NumPagesValue == MathCeilDiv(countQuery(dataset), pageSize).v

\* C3: the pages getPage(0), ..., getPage(numPages()-1), concatenated, hold
\* exactly the logical filtered documents, each once, ordered on the primary
\* field in the configured direction.
C3_PagesPartitionLogicalSet ==
  walk.next = NumPagesValue =>
    /\ SeqToSet(walk.acc) = LogicalRows
    /\ Len(walk.acc) = Cardinality(LogicalRows)
    /\ PrimaryOrdered(walk.acc, direction)

\* three logical documents walked as a full page and a trailing partial page
C3_Witness ==
  /\ walk.next = NumPagesValue /\ walk.next = 2 /\ Len(walk.acc) = 3
  /\ last.op = "getPage" /\ last.page = 1

Identity(id) == IF IsDraftId(id) THEN PublishedIdOf(id) ELSE id
\* the document that stands for identity x: the published one when it exists
Representative(x) ==
  IF x \in RawIds THEN CHOOSE d \in RawDocs : d._id = x
  ELSE CHOOSE d \in RawDocs : d._id = DraftsPrefix \o x
WalkComplete == walk.next >= 1 /\ walk.next * pageSize >= LogicalCount

CeilOf(c, size) == CHOOSE m \in 0..c : m * size >= c /\ (m = 0 \/ (m - 1) * size < c)

\* C6: numPages() resolves to ceil(c / pageSize), c the number of logical
\* documents matching the filter.
C6_NumPagesIsCeil ==
  (last.op = "numPages" /\ last.outcome = "resolved")
    => last.count = Num(CeilOf(LogicalCount, pageSize))

\* three logical documents, page size two: a trailing partial page is counted
C6_Witness ==
  /\ last.op = "numPages" /\ last.outcome = "resolved"
  /\ LogicalCount = 3 /\ pageSize = 2 /\ last.count = Num(2)

\* what a call of getPage(0) on a Fresh paginator leaves behind: result and cursor
GetPageZeroEffect ==
  LET rows0 == GetPageRows(0) IN
  IF ~last.fetchOk
  THEN last.outcome = "rejected" /\ Fresh
  ELSE IF rows0 = <<>>
  THEN /\ last.outcome = "rejected" /\ last.error = "TypeError"
       /\ currentPage = Def(0)
       /\ lastOrderFieldMin = Undefined /\ lastOrderFieldMax = Undefined
       /\ lastMinId = Undefined /\ lastMaxId = Undefined
  ELSE /\ last.outcome = "resolved" /\ last.rows = rows0
       /\ currentPage = Def(0)
       /\ lastOrderFieldMin = Def(rows0[1].order) /\ lastMinId = Def(rows0[1]._id)
       /\ lastOrderFieldMax = Def(rows0[Len(rows0)].order)
       /\ lastMaxId = Def(rows0[Len(rows0)]._id)

\* C7: on a Fresh paginator nextPage() and previousPage() have the result and
\* leave the cursor that getPage(0) has and leaves.
C7_FreshNavigationIsGetPageZero ==
  (last.fresh /\ (last.op \in {"nextPage", "previousPage"}
                  \/ (last.op = "getPage" /\ last.page = 0)))
    => GetPageZeroEffect

\* previousPage() on a Fresh paginator returned a full first page
C7_Witness ==
  /\ last.op = "previousPage" /\ last.fresh /\ last.outcome = "resolved"
  /\ Len(last.rows) = 2 /\ currentPage = Def(0)

\* C9: when the executor's fetch rejects, the caller gets that rejection, one
\* fetch was issued, and currentPage and the bounds are what they were.
C9_RejectionLeavesCursor ==
  [][(~last'.fetchOk)
     => (/\ last'.outcome = "rejected" /\ last'.error = "FetchError"
         /\ last'.fetches = 1
         /\ cursor' = cursor)]_vars

\* a rejected nextPage() on a positioned paginator
C9_Witness ==
  /\ last.op = "nextPage" /\ ~last.fetchOk /\ ~last.fresh
  /\ last.outcome = "rejected" /\ currentPage # Undefined /\ lastMaxId # Undefined

\* C11: every page handed to the caller by getPage, nextPage and previousPage
\* is ordered on the primary field in the configured direction.
C11_PagesInConfiguredDirection ==
  PageReturned => PrimaryOrdered(last.rows, direction)

\* previousPage() on a positioned descending paginator returned two rows of
\* different sort values
C11_Witness ==
  /\ last.op = "previousPage" /\ ~last.fresh /\ last.outcome = "resolved"
  /\ direction = "desc" /\ Len(last.rows) = 2
  /\ last.rows[1].order > last.rows[2].order

\* C12: numPages() gives the count-derived value whatever the cursor is and
\* leaves currentPage and the bounds as they were.
C12_NumPagesLeavesCursor ==
  [][(last'.op = "numPages")
     => (/\ cursor' = cursor
         /\ last'.fetchOk => (/\ last'.outcome = "resolved"
                              /\ last'.count = Num(CeilOf(LogicalCount, pageSize))))]_vars

\* numPages() resolved on a paginator positioned on its second page
C12_Witness ==
  /\ last.op = "numPages" /\ last.outcome = "resolved"
  /\ currentPage = Def(1) /\ lastMaxId # Undefined /\ last.count = Num(2)

Positioned ==
  /\ currentPage # Undefined
  /\ lastOrderFieldMin # Undefined /\ lastOrderFieldMax # Undefined
  /\ lastMinId # Undefined /\ lastMaxId # Undefined

\* C14: the cursor is either Fresh (nothing set) or Positioned (everything set).
C14_FreshOrPositioned == Fresh \/ Positioned

\* C15: a successful nextPage() after getPage(k) leaves currentPage = k + 1.
C15_NextPageIncrements ==
  [][(/\ last.op = "getPage" /\ last.outcome = "resolved"
      /\ last'.op = "nextPage" /\ last'.outcome = "resolved")
     => currentPage' = Def(last.page + 1)]_vars

\* C16: after a call that handed a non-empty page to the caller, lowerBound is
\* the (sort value, identifier) of the page's first row and upperBound that of
\* its last row.
C16_BoundsFromReturnedPage ==
  PageReturned =>
    /\ lastOrderFieldMin = Def(last.rows[1].order)
    /\ lastMinId = Def(last.rows[1]._id)
    /\ lastOrderFieldMax = Def(last.rows[Len(last.rows)].order)
    /\ lastMaxId = Def(last.rows[Len(last.rows)]._id)

\* previousPage() on a positioned paginator returned two rows
C16_Witness ==
  /\ last.op = "previousPage" /\ ~last.fresh /\ last.outcome = "resolved"
  /\ Len(last.rows) = 2 /\ lastMinId # lastMaxId

\* C17: rows of equal primary sort value appear in ascending identifier order
\* in every returned page, whatever the stored order.
C17_TiesInIdentifierOrder ==
  PageReturned =>
    \A i, j \in 1..Len(last.rows) :
      (i < j /\ last.rows[i].order = last.rows[j].order)
        => StrLess(last.rows[i]._id, last.rows[j]._id)

\* the logical filtered rows in stored order, and sorted on the primary field
\* as order() sorts them (rows of equal value stay in stored order)
StoredLogical == MapProject(SelectSeq(dataset, LAMBDA d : d \in LogicalDocs))
SortedStored(dir) == OrderBy(StoredLogical, dir)
OffsetWindow(n) == Slice(SortedStored(direction), n * pageSize, n * pageSize + pageSize)

AfterUpperBound(row) ==
  \/ row.order > Val(lastOrderFieldMax)
  \/ (row.order = Val(lastOrderFieldMax) /\ StrLess(Val(lastMaxId), row._id))
BeforeLowerBound(row) ==
  \/ row.order < Val(lastOrderFieldMin)
  \/ (row.order = Val(lastOrderFieldMin) /\ StrLess(row._id, Val(lastMinId)))

\* the first pageSize rows beyond the upper bound, from the bounds alone
NextWindow ==
  IF lastOrderFieldMax = Undefined THEN <<>>
  ELSE Slice(SelectSeq(SortedStored(direction), AfterUpperBound), 0, pageSize)

\* the first pageSize rows below the lower bound in the inverse direction,
\* put back in the configured direction
PreviousWindow ==
  IF lastOrderFieldMin = Undefined THEN <<>>
  ELSE OrderBy(Slice(SelectSeq(SortedStored(inverseDirection(direction)), BeforeLowerBound),
                     0, pageSize),
               direction)

\* C19: getPage(n) fetches the window [n*pageSize, n*pageSize + pageSize) of
\* the sorted logical filtered sequence whatever the cursor is; nextPage() and
\* previousPage() on a positioned paginator fetch the first pageSize rows
\* beyond the saved bound, whatever currentPage is.
C19_OffsetVersusCursorWindows ==
  [][/\ (last'.op = "getPage" /\ last'.fetchOk)
          => last'.fetched = OffsetWindow(last'.page)
     /\ (last'.op = "nextPage" /\ ~last'.fresh /\ last'.fetchOk)
          => last'.fetched = NextWindow
     /\ (last'.op = "previousPage" /\ ~last'.fresh /\ last'.fetchOk)
          => last'.fetched = PreviousWindow]_vars

\* getPage(1) on a paginator already positioned on page 1 returned a page
C19_Witness ==
  /\ last.op = "getPage" /\ ~last.fresh /\ last.page = 1
  /\ last.outcome = "resolved" /\ walk.next = 0

\* C20: on a new paginator over a non-empty logical set, numPages() calls of
\* nextPage() in a row return pages whose concatenation is the logical set,
\* each document once, ordered on the primary field in the configured direction.
C20_ForwardTraversal ==
  (fwd.valid /\ LogicalCount > 0 /\ fwd.n = NumPagesValue) =>
    /\ ~fwd.threw
    /\ SeqToSet(fwd.acc) = LogicalRows
    /\ Len(fwd.acc) = Cardinality(LogicalRows)
    /\ PrimaryOrdered(fwd.acc, direction)

\* what a call made on cursor cur fetches
SerialQuery(cur, o) ==
  IF o.op = "getPage" \/ cur.cp = Undefined
  THEN [kind |-> "page", pf |-> NoPageFilter, dir |-> direction,
        start |-> o.page * pageSize, end |-> o.page * pageSize + pageSize]
  ELSE IF o.op = "nextPage"
  THEN [kind |-> "page", pf |-> [kind |-> "gt", f |-> cur.max, id |-> cur.maxId],
        dir |-> direction, start |-> 0, end |-> pageSize]
  ELSE [kind |-> "prev", pf |-> [kind |-> "lt", f |-> cur.min, id |-> cur.minId],
        dir |-> direction, start |-> 0, end |-> pageSize]

SerialPage(cur, o) ==
  IF o.op = "getPage" \/ cur.cp = Undefined THEN Def(o.page)
  ELSE IF ~Truthy(cur.cp) THEN Def(0)
  ELSE IF o.op = "nextPage" THEN Def(Val(cur.cp) + 1) ELSE Def(Val(cur.cp) - 1)

\* one call run from start to end on cursor cur, its fetch answered or failed
SerialStep(cur, o, ok) ==
  LET rows == Evaluate(dataset, SerialQuery(cur, o)) IN
  IF ~ok THEN [cur |-> cur, out |-> [ok |-> FALSE, error |-> "FetchError", rows |-> <<>>]]
  ELSE IF rows = <<>>
  THEN [cur |-> [cur EXCEPT !.cp = SerialPage(cur, o)],
        out |-> [ok |-> TRUE, error |-> "TypeError", rows |-> <<>>]]
  ELSE [cur |-> [cp |-> SerialPage(cur, o),
                 min |-> Def(rows[1].order), max |-> Def(rows[Len(rows)].order),
                 minId |-> Def(rows[1]._id), maxId |-> Def(rows[Len(rows)]._id)],
        out |-> [ok |-> TRUE, error |-> "none", rows |-> rows]]

\* two calls run one after the other from cursor cur: first a, then b
SerialPair(cur, a, oka, b, okb) ==
  LET s1 == SerialStep(cur, a, oka)
      s2 == SerialStep(s1.cur, b, okb)
  IN [first |-> s1.out, second |-> s2.out, cur |-> s2.cur]

RaceDone(n) == pending = <<>> /\ Len(race.ops) = n
\* the two serial orders of a finished pair; outs are listed by call, not by time
SerialAB ==
  LET r == SerialPair(race.start, race.ops[1], race.outs[1].ok, race.ops[2], race.outs[2].ok)
  IN [outs |-> <<r.first, r.second>>, cur |-> r.cur]
SerialBA ==
  LET r == SerialPair(race.start, race.ops[2], race.outs[2].ok, race.ops[1], race.outs[1].ok)
  IN [outs |-> <<r.second, r.first>>, cur |-> r.cur]
PagesDiverge == race.outs \notin {SerialAB.outs, SerialBA.outs}
CursorDiverges == CursorRecord \notin {SerialAB.cur, SerialBA.cur}

\* C18: a call that is awaited (no other call in flight from its issue to its
\* answer) returns what the serial run returns and leaves the serial run's
\* cursor; two overlapped calls can return pages, or leave a cursor, that
\* neither serial order gives: two nextPage() calls overlapped on a positioned
\* paginator, both answered, return the same page twice, and when that page is
\* not empty no serial order of the two calls returns that pair.
C18_AwaitedCallsAreSerial ==
  /\ RaceDone(1) =>
       LET s == SerialStep(race.start, race.ops[1], race.outs[1].ok)
       IN race.outs[1] = s.out /\ CursorRecord = s.cur
  /\ (/\ RaceDone(2) /\ race.start.cp # Undefined
      /\ race.ops[1].op = "nextPage" /\ race.ops[2].op = "nextPage"
      /\ race.outs[1].ok /\ race.outs[2].ok)
       => /\ race.outs[1] = race.outs[2]
          /\ race.outs[1].error = "none" => PagesDiverge

\* two nextPage() calls overlapped on a positioned paginator returned the same
\* page twice, which no serial order of them does
C18_Witness ==
  /\ RaceDone(2)
  /\ race.ops[1].op = "nextPage" /\ race.ops[2].op = "nextPage"
  /\ race.start.cp # Undefined
  /\ race.outs[1].error = "none" /\ race.outs[2] = race.outs[1]
  /\ PagesDiverge

BoundsOf(rows) ==
  <<Def(rows[1].order), Def(rows[Len(rows)].order), Def(rows[1]._id), Def(rows[Len(rows)]._id)>>
Bounds == <<lastOrderFieldMin, lastOrderFieldMax, lastMinId, lastMaxId>>

\* page P is followed, or preceded, by a row of the sorted logical sequence
HasFollowing(P) ==
  PositionOf(SortedStored(direction), P[Len(P)]) < Len(SortedStored(direction))
HasPreceding(P) == PositionOf(SortedStored(direction), P[1]) > 1

\* C21: on a paginator positioned on a returned page P that has a following
\* page, nextPage() followed by previousPage() returns P again and puts the
\* bounds back to those of P; likewise, when P has a preceding page,
\* previousPage() followed by nextPage().
C21_NavigationRoundTrip ==
  [][/\ (/\ last.op = "nextPage" /\ last.fetchOk /\ last.before # <<>>
         /\ HasFollowing(last.before)
         /\ last'.op = "previousPage" /\ last'.fetchOk)
          => /\ last'.outcome = "resolved" /\ last'.rows = last.before
             /\ Bounds' = BoundsOf(last.before)
     /\ (/\ last.op = "previousPage" /\ last.fetchOk /\ last.before # <<>>
         /\ HasPreceding(last.before)
         /\ last'.op = "nextPage" /\ last'.fetchOk)
          => /\ last'.outcome = "resolved" /\ last'.rows = last.before
             /\ Bounds' = BoundsOf(last.before)]_vars
====
